---- MODULE Spec2Model ----
(***************************************************************************)
(* Model of src/modules/transactions.js: syncAndPublish (one               *)
(* reconciliation pass over the delegate-request collection) and           *)
(* publishTransaction (submission with nonce-conflict retry), together     *)
(* with the collection they read and write and the chain they talk to.     *)
(* Every await of the source is one step of a pass.                        *)
(***************************************************************************)
EXTENDS Integers, Sequences, FiniteSets, TLC

\* ------------------------------------------------------------ bounds
MaxRequests == 3      \* documents ever inserted into the collection
MaxOutages == 1       \* times the store and the chain reads become unreachable
MaxConfirmations == 2 \* confirmation counts above this are not distinguished

\* ethereumGlobalConfig.requiredConfirmations (configuration value)
requiredConfirmations == 2

\* ------------------------------------------------------------ values
\* db status codes
status == [new |-> 0, confirmed |-> 1, mining |-> 2, mined |-> 3, failed |-> 4]

\* ethers error codes the source compares against
errorCode == [INSUFFICIENT_FUNDS |-> "INSUFFICIENT_FUNDS",
              NONCE_EXPIRED |-> "NONCE_EXPIRED",
              REPLACEMENT_UNDERPRICED |-> "REPLACEMENT_UNDERPRICED"]

\* a field that was never set on a document (JavaScript undefined)
Undefined == -1
\* the result of arithmetic on undefined (JavaScript NaN)
NaN == -2
\* a reason that was never set
NoReason == ""
\* getTransactionReceipt's null
NoReceipt == [confirmations |-> 0, transactionHash |-> 0]
\* no exception caught
NoError == [code |-> "", text |-> ""]
\* the errors a pass can meet, as ethers / the driver raise them (code, toString())
TypeError == [code |-> "", text |-> "TypeError: Cannot read property 'nonce' of undefined"]
IOError == [code |-> "", text |-> "Error: connection lost"]
InsufficientFunds == [code |-> "INSUFFICIENT_FUNDS", text |-> "Error: insufficient funds"]
CallException == [code |-> "CALL_EXCEPTION", text |-> "Error: call exception"]

\* the passes (invocations of syncAndPublish) that may exist
Workers == {1, 2}

VARIABLES
  store,          \* the delegate-request collection, in natural order
  chain,          \* transactions the chain accepted from the wallet; hash = index
  pc,             \* where each pass stands
  nextNonce,      \* let nextNonce
  lastMinedTx,    \* const lastMinedTx (index in store, 0 when undefined)
  requestQueue,   \* const requestQueue (documents as read by the query)
  i,              \* loop index, 1-based
  nonce,          \* publishTransaction's nonce / the nonce read at line 95
  transactionHash,\* the hash publishTransaction got
  txReceipt,      \* const txReceipt
  e,              \* the exception caught at line 141 or leaving the pass
  down,           \* the store and the chain reads are unreachable
  outages,        \* outages so far
  conflicts,      \* history: nonce-conflict answers met by the current publish
  assigned,       \* history: nonces persisted by the current pass at line 128, in order
  overlapped      \* history: a pass was started while another one was running

vars == <<store, chain, pc, nextNonce, lastMinedTx, requestQueue, i, nonce,
          transactionHash, txReceipt, e, down, outages, overlapped, conflicts, assigned>>

locals == <<nextNonce, lastMinedTx, requestQueue, i, nonce, transactionHash,
            txReceipt, e, conflicts, assigned>>

\* ------------------------------------------------------------ JavaScript
\* x + 1 on a number or undefined
PlusOne(x) == IF x < 0 THEN NaN ELSE x + 1

\* truthiness of a number or undefined (0, NaN and undefined are falsy)
Truthy(x) == x > 0

\* doc[0] of a document: documents have no property "0"
ElementZero(doc) == Undefined

\* ------------------------------------------------------------ store
Document(st) == [status |-> st, nonce |-> Undefined, transactionHash |-> Undefined,
                 txReceipt |-> NoReceipt, reason |-> NoReason]

\* find({status: mined}).sort({$natural: -1}).limit(1).toArray()[0]
FindLastMined ==
  LET S == {k \in DOMAIN store : store[k].status = status.mined}
  IN IF S = {} THEN 0 ELSE CHOOSE k \in S : \A j \in S : j <= k

RECURSIVE Ascending(_)
Ascending(S) ==
  IF S = {} THEN <<>>
  ELSE LET k == CHOOSE x \in S : \A y \in S : x <= y
       IN <<k>> \o Ascending(S \ {k})

\* mutant: the backlog query selects every status
BacklogStatusesAll ==
  {status.new, status.confirmed, status.mining, status.mined, status.failed}

\* the statuses the backlog query selects
BacklogStatuses == {status.confirmed, status.mining, status.mined}

\* find({_id: {$gt: lastMinedTx._id}, status: {$in: [...]}}).sort({$natural: 1}).toArray()
FindBacklog(last) ==
  LET S == {k \in DOMAIN store : k > last /\ store[k].status \in BacklogStatuses}
      ids == Ascending(S)
  IN [j \in 1..Len(ids) |->
        [id |-> ids[j], status |-> store[ids[j]].status, nonce |-> store[ids[j]].nonce,
         transactionHash |-> store[ids[j]].transactionHash]]

\* findOneAndUpdate({_id}, {$set: fields}) for the three field sets the source writes
SetMined(id, receipt, n) ==
  [store EXCEPT ![id] = [@ EXCEPT !.status = status.mined, !.txReceipt = receipt, !.nonce = n]]

\* mutant: the update writes status and hash and leaves the nonce out
SetMiningPartial(id, hash, n) ==
  [store EXCEPT ![id] = [@ EXCEPT !.status = status.mining, !.transactionHash = hash]]

SetMining(id, hash, n) ==
  [store EXCEPT ![id] = [@ EXCEPT !.status = status.mining, !.transactionHash = hash, !.nonce = n]]

SetFailed(id, why) ==
  [store EXCEPT ![id] = [@ EXCEPT !.status = status.failed, !.reason = why]]

\* ------------------------------------------------------------ chain
Hashes == DOMAIN chain
Mined(h) == chain[h].state = "mined"
Pending(h) == chain[h].state = "pending"

\* the wallet's transaction count at the latest block
LatestCount == Cardinality({h \in Hashes : Mined(h)})

\* nonces held by transactions waiting in the pool
PendingNonces == {chain[h].nonce : h \in {x \in Hashes : Pending(x)}}

RECURSIVE FirstFree(_)
FirstFree(n) == IF n \in PendingNonces THEN FirstFree(n + 1) ELSE n

\* the wallet's transaction count including the pool
PendingCount == FirstFree(LatestCount)

\* a count that includes the pool (the read with the "pending" block tag)
getTransactionCountPending == PendingCount

\* provider.getTransactionCount(address): no block tag is passed, so the count is
\* taken at the latest block
getTransactionCount == LatestCount

\* provider.getTransactionReceipt(hash)
getTransactionReceipt(hash) ==
  IF hash \in Hashes /\ Mined(hash)
  THEN [confirmations |-> chain[hash].confirmations, transactionHash |-> hash]
  ELSE NoReceipt

\* provider.getTransaction(hash).nonce
getTransaction(hash) == chain[hash].nonce

Tx(n, r) == [nonce |-> n, req |-> r, state |-> "pending", confirmations |-> 0]

\* the chain takes a transaction with nonce n for request r; a pending transaction
\* with the same nonce is replaced (the wallet is the only sender)
Accept(n, r) ==
  Append([h \in Hashes |->
            IF Pending(h) /\ chain[h].nonce = n
            THEN [chain[h] EXCEPT !.state = "replaced"] ELSE chain[h]],
         Tx(n, r))

\* ------------------------------------------------------------ a pass
Set(f, w, v) == [f EXCEPT ![w] = v]

\* const request = requestQueue[i]
request(w) == requestQueue[w][i[w]]

\* mutant: the reason does not look at the error code
ReasonGeneric(err) == "Transaction error when publishing: " \o err.text

\* the reason string written at lines 148-150
Reason(err) ==
  IF err.code = errorCode.INSUFFICIENT_FUNDS
  THEN "Delegate account has no Ether on its balance"
  ELSE "Transaction error when publishing: " \o err.text

\* the cursor after a mining request whose receipt has too few confirmations (line 88)
BelowThreshold(n, cursor) == IF Truthy(n) THEN n + 1 ELSE PlusOne(cursor)

\* mutant: the loop steps over the request after the one it resolved
ContinueSkips(w) ==
  /\ i' = Set(i, w, i[w] + 2)
  /\ pc' = Set(pc, w, "loop")
  /\ nonce' = Set(nonce, w, Undefined)
  /\ transactionHash' = Set(transactionHash, w, Undefined)
  /\ txReceipt' = Set(txReceipt, w, NoReceipt)
  /\ e' = Set(e, w, NoError)
  /\ conflicts' = Set(conflicts, w, 0)

\* continue: on to the next request, the per-request locals are dead
Continue(w) ==
  /\ i' = Set(i, w, i[w] + 1)
  /\ pc' = Set(pc, w, "loop")
  /\ nonce' = Set(nonce, w, Undefined)
  /\ transactionHash' = Set(transactionHash, w, Undefined)
  /\ txReceipt' = Set(txReceipt, w, NoReceipt)
  /\ e' = Set(e, w, NoError)
  /\ conflicts' = Set(conflicts, w, 0)

\* the exception leaves syncAndPublish
Throw(w, err) ==
  /\ pc' = Set(pc, w, "aborted")
  /\ e' = Set(e, w, err)

\* pass w is between its invocation and its return or rejection
Running(w) == pc[w] \notin {"idle", "done", "aborted"}

\* syncAndPublish is invoked; Step 1, the query (lines 6-23)
Start(w) ==
  /\ pc[w] = "idle"
  /\ ~down
  /\ lastMinedTx' = Set(lastMinedTx, w, FindLastMined)
  /\ pc' = Set(pc, w, "nonce")
  /\ overlapped' = (overlapped \/ \E v \in Workers \ {w} : Running(v))
  /\ UNCHANGED <<store, chain, nextNonce, requestQueue, i, nonce, transactionHash,
                 txReceipt, e, down, outages, conflicts, assigned>>

\* Step 1, the starting nonce (lines 25-32)
ResolveNonce(w) ==
  /\ pc[w] = "nonce"
  /\ IF lastMinedTx[w] = 0
     THEN /\ ~down
          /\ nextNonce' = Set(nextNonce, w, getTransactionCount)
          /\ pc' = Set(pc, w, "backlog")
          /\ e' = e
     ELSE IF ElementZero(lastMinedTx[w]) = Undefined
          THEN /\ Throw(w, TypeError)
               /\ nextNonce' = nextNonce
          ELSE /\ nextNonce' = Set(nextNonce, w, PlusOne(store[ElementZero(lastMinedTx[w])].nonce))
               /\ pc' = Set(pc, w, "backlog")
               /\ e' = e
  /\ UNCHANGED <<store, chain, lastMinedTx, requestQueue, i, nonce, transactionHash,
                 txReceipt, down, outages, overlapped, conflicts, assigned>>

\* Step 2 (lines 40-59)
QueryBacklog(w) ==
  /\ pc[w] = "backlog"
  /\ ~down
  /\ requestQueue' = Set(requestQueue, w, FindBacklog(lastMinedTx[w]))
  /\ i' = Set(i, w, 1)
  /\ pc' = Set(pc, w, "loop")
  /\ UNCHANGED <<store, chain, nextNonce, lastMinedTx, nonce, transactionHash,
                 txReceipt, e, down, outages, overlapped, conflicts, assigned>>

\* the loop head and the branch on request.status (lines 61-80, 120, 158-161)
Examine(w) ==
  /\ pc[w] = "loop"
  /\ IF i[w] > Len(requestQueue[w])
     THEN /\ pc' = Set(pc, w, "done")
          /\ UNCHANGED <<nextNonce, i, nonce>>
     ELSE IF request(w).status = status.mined
     THEN /\ nextNonce' = Set(nextNonce, w, PlusOne(request(w).nonce))
          /\ i' = Set(i, w, i[w] + 1)
          /\ UNCHANGED <<pc, nonce>>
     ELSE IF request(w).status = status.mining
     THEN /\ pc' = Set(pc, w, "receipt")
          /\ UNCHANGED <<nextNonce, i, nonce>>
     ELSE IF request(w).status = status.confirmed
     THEN /\ pc' = Set(pc, w, "submit")
          /\ nonce' = Set(nonce, w, nextNonce[w])
          /\ UNCHANGED <<nextNonce, i>>
     ELSE /\ i' = Set(i, w, i[w] + 1)
          /\ UNCHANGED <<pc, nextNonce, nonce>>
  /\ UNCHANGED <<store, chain, lastMinedTx, requestQueue, transactionHash,
                 txReceipt, e, down, outages, overlapped, conflicts, assigned>>

\* mutant: the threshold comparison is inverted
TooFewInverted(r) == r.confirmations > requiredConfirmations

\* txReceipt.confirmations < requiredConfirmations (line 87)
TooFew(r) == r.confirmations < requiredConfirmations

\* mutant: without a receipt the cursor is taken from the recorded nonce
ReceiptRecorded(w) ==
  /\ pc[w] = "receipt"
  /\ ~down
  /\ LET r == getTransactionReceipt(request(w).transactionHash)
     IN IF r # NoReceipt
        THEN IF TooFew(r)
             THEN /\ nextNonce' = Set(nextNonce, w, BelowThreshold(request(w).nonce, nextNonce[w]))
                  /\ Continue(w)
             ELSE /\ txReceipt' = Set(txReceipt, w, r)
                  /\ pc' = Set(pc, w, "getTx")
                  /\ UNCHANGED <<nextNonce, i, nonce, transactionHash, e, conflicts>>
        ELSE /\ nextNonce' = Set(nextNonce, w, PlusOne(request(w).nonce))
             /\ Continue(w)
  /\ UNCHANGED <<store, chain, lastMinedTx, requestQueue, down, outages, overlapped, assigned>>

\* Step 3.2, the receipt (lines 83-90, 110-114)
Receipt(w) ==
  /\ pc[w] = "receipt"
  /\ ~down
  /\ LET r == getTransactionReceipt(request(w).transactionHash)
     IN IF r # NoReceipt
        THEN IF TooFew(r)
             THEN /\ nextNonce' = Set(nextNonce, w, BelowThreshold(request(w).nonce, nextNonce[w]))
                  /\ Continue(w)
             ELSE /\ txReceipt' = Set(txReceipt, w, r)
                  /\ pc' = Set(pc, w, "getTx")
                  /\ UNCHANGED <<nextNonce, i, nonce, transactionHash, e, conflicts>>
        ELSE /\ nextNonce' = Set(nextNonce, w, PlusOne(nextNonce[w]))
             /\ Continue(w)
  /\ UNCHANGED <<store, chain, lastMinedTx, requestQueue, down, outages, overlapped, assigned>>

\* Step 3.2, the authoritative nonce (line 95)
GetTx(w) ==
  /\ pc[w] = "getTx"
  /\ ~down
  /\ nonce' = Set(nonce, w, getTransaction(request(w).transactionHash))
  /\ pc' = Set(pc, w, "writeMined")
  /\ UNCHANGED <<store, chain, nextNonce, lastMinedTx, requestQueue, i, transactionHash,
                 txReceipt, e, down, outages, overlapped, conflicts, assigned>>

\* Step 3.2, the request is marked mined (lines 97-108)
WriteMined(w) ==
  /\ pc[w] = "writeMined"
  /\ ~down
  /\ store' = SetMined(request(w).id, txReceipt[w], nonce[w])
  /\ nextNonce' = Set(nextNonce, w, PlusOne(nonce[w]))
  /\ Continue(w)
  /\ UNCHANGED <<chain, lastMinedTx, requestQueue, down, outages, overlapped, assigned>>

\* mutant: the retry loop gives up at the second nonce conflict and rethrows it
SubmitConflictBounded(w) ==
  /\ pc[w] = "submit"
  /\ nonce[w] >= 0
  /\ nonce[w] < LatestCount \/ nonce[w] \in PendingNonces
  /\ IF conflicts[w] >= 1
     THEN /\ pc' = Set(pc, w, "catch")
          /\ e' = Set(e, w, [code |-> errorCode.NONCE_EXPIRED, text |-> "Error: nonce expired"])
          /\ UNCHANGED <<nonce, conflicts>>
     ELSE /\ nonce' = Set(nonce, w, nonce[w] + 1)
          /\ conflicts' = Set(conflicts, w, conflicts[w] + 1)
          /\ UNCHANGED <<pc, e>>
  /\ UNCHANGED <<store, chain, nextNonce, lastMinedTx, requestQueue, i,
                 transactionHash, txReceipt, down, outages, overlapped, assigned>>

\* publishTransaction: the chain answers a submission with a nonce conflict
\* (lines 175-183): the nonce is below the wallet's count, or held by a
\* pending transaction that this one does not outbid
SubmitConflict(w) ==
  /\ pc[w] = "submit"
  /\ nonce[w] >= 0
  /\ nonce[w] < LatestCount \/ nonce[w] \in PendingNonces
  /\ nonce' = Set(nonce, w, nonce[w] + 1)
  /\ conflicts' = Set(conflicts, w, conflicts[w] + 1)
  /\ UNCHANGED <<store, chain, pc, nextNonce, lastMinedTx, requestQueue, i,
                 transactionHash, txReceipt, e, down, outages, overlapped, assigned>>

\* publishTransaction: the chain accepts the submission (lines 175-178, 188-191)
SubmitAccepted(w) ==
  /\ pc[w] = "submit"
  /\ nonce[w] >= LatestCount
  /\ chain' = Accept(nonce[w], request(w).id)
  /\ transactionHash' = Set(transactionHash, w, Len(chain) + 1)
  /\ pc' = Set(pc, w, "writeMining")
  /\ UNCHANGED <<store, nextNonce, lastMinedTx, requestQueue, i, nonce,
                 txReceipt, e, down, outages, overlapped, conflicts, assigned>>

\* publishTransaction: resolving the contract (line 169) or the submission raises
\* any other error (line 184)
SubmitRejected(w) ==
  /\ pc[w] = "submit"
  /\ \E err \in {InsufficientFunds, CallException} :
       e' = Set(e, w, err)
  /\ pc' = Set(pc, w, "catch")
  /\ UNCHANGED <<store, chain, nextNonce, lastMinedTx, requestQueue, i, nonce,
                 transactionHash, txReceipt, down, outages, overlapped, conflicts, assigned>>

\* mutant: the cursor moves one past the nonce that was offered
WriteMiningOffered(w) ==
  /\ pc[w] = "writeMining"
  /\ ~down
  /\ store' = SetMining(request(w).id, transactionHash[w], nonce[w])
  /\ nextNonce' = Set(nextNonce, w, PlusOne(nextNonce[w]))
  /\ assigned' = Set(assigned, w, Append(assigned[w], nonce[w]))
  /\ Continue(w)
  /\ UNCHANGED <<chain, lastMinedTx, requestQueue, down, outages, overlapped>>

\* mutant: the pass goes on to the next request without persisting the write
WriteMiningUnpersisted(w) ==
  /\ pc[w] = "writeMining"
  /\ ~down
  /\ store' = store
  /\ nextNonce' = Set(nextNonce, w, PlusOne(nonce[w]))
  /\ assigned' = Set(assigned, w, Append(assigned[w], nonce[w]))
  /\ Continue(w)
  /\ UNCHANGED <<chain, lastMinedTx, requestQueue, down, outages, overlapped>>

\* Step 3.3, the request is marked mining (lines 126-139)
WriteMining(w) ==
  /\ pc[w] = "writeMining"
  /\ ~down
  /\ store' = SetMining(request(w).id, transactionHash[w], nonce[w])
  /\ nextNonce' = Set(nextNonce, w, PlusOne(nonce[w]))
  /\ assigned' = Set(assigned, w, Append(assigned[w], nonce[w]))
  /\ Continue(w)
  /\ UNCHANGED <<chain, lastMinedTx, requestQueue, down, outages, overlapped>>

\* mutant: the cursor adopts the nonce the failed publish had reached
CatchAdopts(w) ==
  /\ pc[w] = "catch"
  /\ ~down
  /\ store' = SetFailed(request(w).id, Reason(e[w]))
  /\ nextNonce' = Set(nextNonce, w, nonce[w])
  /\ Continue(w)
  /\ UNCHANGED <<chain, lastMinedTx, requestQueue, down, outages, overlapped, assigned>>

\* mutant: a failed request is published again
CatchRetries(w) ==
  /\ pc[w] = "catch"
  /\ ~down
  /\ store' = SetFailed(request(w).id, Reason(e[w]))
  /\ pc' = Set(pc, w, "submit")
  /\ e' = Set(e, w, NoError)
  /\ UNCHANGED <<chain, nextNonce, lastMinedTx, requestQueue, i, nonce, transactionHash,
                 txReceipt, down, outages, overlapped, conflicts, assigned>>

\* Step 3.3, the request is marked failed (lines 141-156)
Catch(w) ==
  /\ pc[w] = "catch"
  /\ ~down
  /\ store' = SetFailed(request(w).id, Reason(e[w]))
  /\ Continue(w)
  /\ UNCHANGED <<chain, nextNonce, lastMinedTx, requestQueue, down, outages, overlapped, assigned>>

\* the awaits on the store or on a chain read outside any try block
Unguarded == {"idle", "backlog", "receipt", "getTx", "writeMined", "catch"}
\* the store update inside the try block of lines 123-139
Guarded == {"writeMining"}

\* a store query or update, or a chain read, fails
Fail(w) ==
  /\ down
  /\ \/ /\ pc[w] \in Unguarded \/ (pc[w] = "nonce" /\ lastMinedTx[w] = 0)
        /\ Throw(w, IOError)
     \/ /\ pc[w] \in Guarded
        /\ pc' = Set(pc, w, "catch")
        /\ e' = Set(e, w, IOError)
  /\ UNCHANGED <<store, chain, nextNonce, lastMinedTx, requestQueue, i, nonce,
                 transactionHash, txReceipt, down, outages, overlapped, conflicts, assigned>>

\* syncAndPublish returns or rejects; its locals are gone
Return(w) ==
  /\ pc[w] \in {"done", "aborted"}
  /\ pc' = Set(pc, w, "idle")
  /\ nextNonce' = Set(nextNonce, w, Undefined)
  /\ lastMinedTx' = Set(lastMinedTx, w, 0)
  /\ requestQueue' = Set(requestQueue, w, <<>>)
  /\ i' = Set(i, w, 0)
  /\ nonce' = Set(nonce, w, Undefined)
  /\ transactionHash' = Set(transactionHash, w, Undefined)
  /\ txReceipt' = Set(txReceipt, w, NoReceipt)
  /\ e' = Set(e, w, NoError)
  /\ conflicts' = Set(conflicts, w, 0)
  /\ assigned' = Set(assigned, w, <<>>)
  /\ UNCHANGED <<store, chain, down, outages, overlapped>>

\* ------------------------------------------------------------ environment
\* create() of the db module: a request is inserted as new
Create ==
  /\ Len(store) < MaxRequests
  /\ store' = Append(store, Document(status.new))
  /\ UNCHANGED <<chain, pc, locals, down, outages, overlapped>>

\* the external authorization step: new -> confirmed
Confirm(k) ==
  /\ k \in DOMAIN store
  /\ store[k].status = status.new
  /\ store' = [store EXCEPT ![k].status = status.confirmed]
  /\ UNCHANGED <<chain, pc, locals, down, outages, overlapped>>

\* the store and the chain reads become unreachable, and reachable again
Outage ==
  /\ ~down
  /\ outages < MaxOutages
  /\ down' = TRUE
  /\ outages' = outages + 1
  /\ UNCHANGED <<store, chain, pc, locals, overlapped>>

Recover ==
  /\ down
  /\ down' = FALSE
  /\ UNCHANGED <<store, chain, pc, locals, outages, overlapped>>

\* a block: it includes the wallet's next pending transaction, if any, and adds a
\* confirmation to every transaction mined before
Block ==
  /\ \E h \in Hashes : (Pending(h) /\ chain[h].nonce = LatestCount)
                       \/ (Mined(h) /\ chain[h].confirmations < MaxConfirmations)
  /\ chain' = [h \in Hashes |->
                 IF Mined(h)
                 THEN [chain[h] EXCEPT !.confirmations =
                         IF @ < MaxConfirmations THEN @ + 1 ELSE @]
                 ELSE IF Pending(h) /\ chain[h].nonce = LatestCount
                 THEN [chain[h] EXCEPT !.state = "mined", !.confirmations = 1]
                 ELSE chain[h]]
  /\ UNCHANGED <<store, pc, locals, down, outages, overlapped>>

\* ------------------------------------------------------------ specification
Init ==
  /\ store = <<>>
  /\ chain = <<>>
  /\ pc = [w \in Workers |-> "idle"]
  /\ nextNonce = [w \in Workers |-> Undefined]
  /\ lastMinedTx = [w \in Workers |-> 0]
  /\ requestQueue = [w \in Workers |-> <<>>]
  /\ i = [w \in Workers |-> 0]
  /\ nonce = [w \in Workers |-> Undefined]
  /\ transactionHash = [w \in Workers |-> Undefined]
  /\ txReceipt = [w \in Workers |-> NoReceipt]
  /\ e = [w \in Workers |-> NoError]
  /\ down = FALSE
  /\ outages = 0
  /\ overlapped = FALSE
  /\ conflicts = [w \in Workers |-> 0]
  /\ assigned = [w \in Workers |-> <<>>]

\* the steps of a pass when the store and the chain reads answer
Step(w) ==
  \/ Start(w) \/ ResolveNonce(w) \/ QueryBacklog(w) \/ Examine(w)
  \/ Receipt(w) \/ GetTx(w) \/ WriteMined(w)
  \/ SubmitConflict(w) \/ SubmitAccepted(w) \/ SubmitRejected(w)
  \/ WriteMining(w) \/ Catch(w) \/ Return(w)

Environment ==
  \/ Create
  \/ \E k \in 1..MaxRequests : Confirm(k)
  \/ Block
  \/ Outage
  \/ Recover

\* passes never overlap: the scheduler runs one invocation at a time
Next == Step(1) \/ Fail(1) \/ Environment

Spec == Init /\ [][Next]_vars

\* repeated passes with a store and chain reads that always answer
NextReliable ==
  \/ Step(1)
  \/ Create
  \/ \E k \in 1..MaxRequests : Confirm(k)
  \/ Block

\* the scheduler keeps invoking passes and every await of a pass resolves
FairSpec == Init /\ [][NextReliable]_vars /\ WF_vars(Step(1))

\* nothing in the module keeps a second invocation from starting while one is
\* running (lines 5-6): the steps of two passes interleave freely
\* every worker is invoked once
Invocation(w) ==
  \/ Start(w) \/ ResolveNonce(w) \/ QueryBacklog(w) \/ Examine(w)
  \/ Receipt(w) \/ GetTx(w) \/ WriteMined(w)
  \/ SubmitConflict(w) \/ SubmitAccepted(w) \/ SubmitRejected(w)
  \/ WriteMining(w) \/ Catch(w)

NextOverlap ==
  \/ \E w \in Workers : Invocation(w)
  \/ Create
  \/ \E k \in 1..MaxRequests : Confirm(k)
  \/ Block

OverlapSpec == Init /\ [][NextOverlap]_vars

\* ------------------------------------------------------------ claims
Requests == 1..MaxRequests

StrictlyIncreasing(q) == \A a, b \in DOMAIN q : a < b => q[a] < q[b]

\* C1 (as claimed): within a pass, the nonces persisted for the requests it
\* published are strictly increasing in processing order.
C1_MonotonicAssignment == \A w \in Workers : StrictlyIncreasing(assigned[w])

\* C3 (as claimed): a pass that found a last mined request with nonce N does not
\* fail while computing the starting nonce, and goes on to the backlog query
\* with cursor N + 1.
C3_ResumeCorrectness ==
  \A w \in Workers :
    (lastMinedTx[w] # 0 /\ pc[w] \notin {"idle", "nonce"}) =>
      /\ e[w] # TypeError
      /\ pc[w] = "backlog" => nextNonce[w] = store[lastMinedTx[w]].nonce + 1

\* the step of pass w that resolves the starting nonce with no mined request
Bootstraps(w) == pc[w] = "nonce" /\ lastMinedTx[w] = 0 /\ pc'[w] = "backlog"

\* C4 (as claimed): with no mined request in the store, the starting cursor is the
\* wallet's transaction count including pending transactions.
C4_BootstrapPending ==
  [][\A w \in Workers : Bootstraps(w) => nextNonce'[w] = PendingCount]_vars

\* C4 (amended): with no mined request in the store, the starting cursor is the
\* wallet's transaction count at the latest block; pending transactions are not
\* counted.
C4_BootstrapLatest ==
  [][\A w \in Workers : Bootstraps(w) => nextNonce'[w] = LatestCount]_vars

\* C4 witness: a pass bootstrapped its cursor while a transaction was pending
C4_Witness ==
  \E w \in Workers :
    /\ pc[w] = "backlog" /\ lastMinedTx[w] = 0 /\ FindLastMined = 0
    /\ nextNonce[w] = LatestCount
    /\ PendingCount > LatestCount

\* C2: while a confirmed request is being published and when its failure is
\* recorded the cursor does not move, whatever nonce the publish reached; the pass
\* then goes on to the next request, and a request it publishes is offered the
\* cursor.
C2_FailureIsolation ==
  [][\A w \in Workers :
       /\ (pc[w] \in {"submit", "writeMining", "catch"}
           /\ pc'[w] \in {"submit", "writeMining", "catch"})
          => nextNonce'[w] = nextNonce[w]
       /\ (pc[w] = "catch" /\ pc'[w] = "loop")
          => /\ store'[request(w).id].status = status.failed
             /\ nextNonce'[w] = nextNonce[w]
             /\ i'[w] = i[w] + 1
             /\ requestQueue'[w] = requestQueue[w]
       /\ (pc[w] = "loop" /\ pc'[w] = "submit") => nonce'[w] = nextNonce[w]]_vars

\* C2 witness: a publish that moved past its candidate nonce has failed, and another
\* request follows in the backlog
C2_Witness ==
  \E w \in Workers :
    /\ pc[w] = "catch"
    /\ conflicts[w] >= 1
    /\ nonce[w] # nextNonce[w]
    /\ e[w] \in {InsufficientFunds, CallException}
    /\ i[w] < Len(requestQueue[w])

\* C5: a request goes from mining to mined only in the step of a pass that holds a
\* receipt for its hash with at least the required confirmations; a pass that reads
\* such a receipt goes on to the transaction lookup, and its update writes status,
\* receipt and the looked-up nonce together and leaves the cursor at that nonce + 1.
C5_ConfirmationGating ==
  [][/\ \A k \in DOMAIN store :
          (store[k].status = status.mining /\ store'[k].status = status.mined)
          => \E w \in Workers :
               /\ pc[w] = "writeMined"
               /\ request(w).id = k
               /\ txReceipt[w].transactionHash = store[k].transactionHash
               /\ txReceipt[w].confirmations >= requiredConfirmations
     /\ \A w \in Workers :
          /\ (pc[w] = "receipt" /\ pc'[w] \in {"loop", "getTx"})
             => LET r == getTransactionReceipt(request(w).transactionHash)
                IN (r # NoReceipt /\ r.confirmations >= requiredConfirmations)
                     <=> pc'[w] = "getTx"
          /\ (pc[w] = "writeMined" /\ pc'[w] = "loop")
             => LET k == request(w).id
                IN /\ store'[k].status = status.mined
                   /\ store'[k].txReceipt = txReceipt[w]
                   /\ store'[k].nonce = chain[store[k].transactionHash].nonce
                   /\ nextNonce'[w] = store'[k].nonce + 1]_vars

\* C5 witness: a request was marked mined with a receipt that has the required
\* confirmations
C5_Witness ==
  \E k \in DOMAIN store :
    /\ store[k].status = status.mined
    /\ store[k].txReceipt.confirmations >= requiredConfirmations
    /\ store[k].nonce = chain[store[k].transactionHash].nonce

\* C6: a publish offered cursor c that met k nonce conflicts is accepted with nonce
\* c + k; the request is then written as mining with nonce c + k and the hash of
\* that transaction, with no reason, and the cursor becomes c + k + 1.
C6_NonceConflictRetry ==
  [][\A w \in Workers :
       /\ (pc[w] = "submit" /\ pc'[w] = "writeMining")
          => /\ transactionHash'[w] \in DOMAIN chain' \ DOMAIN chain
             /\ chain'[transactionHash'[w]].nonce = nextNonce[w] + conflicts[w]
             /\ chain'[transactionHash'[w]].req = request(w).id
             /\ nonce'[w] = nextNonce[w] + conflicts[w]
       /\ (pc[w] = "writeMining" /\ pc'[w] = "loop")
          => LET k == request(w).id
             IN /\ store'[k].status = status.mining
                /\ store'[k].nonce = nextNonce[w] + conflicts[w]
                /\ store'[k].transactionHash = transactionHash[w]
                /\ store'[k].reason = NoReason
                /\ nextNonce'[w] = nextNonce[w] + conflicts[w] + 1]_vars

\* C6 witness: a publish was accepted after at least one nonce conflict
C6_Witness ==
  \E w \in Workers :
    /\ pc[w] = "writeMining"
    /\ conflicts[w] >= 1
    /\ chain[transactionHash[w]].nonce = nextNonce[w] + conflicts[w]

\* C7: a nonce conflict never reaches the catch block; the update that records a
\* failure sets status failed and a reason, the balance-shortage string exactly
\* when the error code is INSUFFICIENT_FUNDS, else the generic description of
\* the error.
C7_FailureRecording ==
  [][\A w \in Workers :
       /\ pc'[w] = "catch"
          => e'[w].code \notin {errorCode.NONCE_EXPIRED, errorCode.REPLACEMENT_UNDERPRICED}
       /\ (pc[w] = "catch" /\ pc'[w] = "loop")
          => LET r == store'[request(w).id]
             IN /\ r.status = status.failed
                /\ r.reason # NoReason
                /\ r.reason = "Delegate account has no Ether on its balance"
                     <=> e[w].code = errorCode.INSUFFICIENT_FUNDS
                /\ e[w].code # errorCode.INSUFFICIENT_FUNDS
                     => r.reason = "Transaction error when publishing: " \o e[w].text]_vars

\* C7 witness: one request failed for lack of balance, another for a different error
C7_Witness ==
  \E k, j \in DOMAIN store :
    /\ store[k].status = status.failed
    /\ store[k].reason = "Delegate account has no Ether on its balance"
    /\ store[j].status = status.failed
    /\ store[j].reason = "Transaction error when publishing: Error: call exception"

\* C8 (as claimed): under repeated passes with no store or chain-read failure,
\* every confirmed request eventually leaves confirmed.
C8_EventualSubmission ==
  \A k \in Requests :
    (k \in DOMAIN store /\ store[k].status = status.confirmed)
      ~> (k \in DOMAIN store /\ store[k].status # status.confirmed)

\* C9 (as claimed): over any sequence of passes, aborted ones included, the chain
\* accepts at most one transaction for each request.
C9_RepeatSafety ==
  \A k \in Requests : Cardinality({h \in Hashes : chain[h].req = k}) <= 1

\* C10: no step changes a request that is failed or mined.
C10_TerminalStatuses ==
  [][\A k \in DOMAIN store :
       store[k].status \in {status.failed, status.mined} => store'[k] = store[k]]_vars

\* C10 witness: with a failed and a mined request in the store, a pass runs
C10_Witness ==
  /\ \E k \in DOMAIN store : store[k].status = status.failed
  /\ \E k \in DOMAIN store : store[k].status = status.mined
  /\ \E w \in Workers : pc[w] \notin {"idle", "done", "aborted"}

\* C11 (as claimed): a failure of the store or of a chain read never ends in the
\* catch block of the publish step, and a request is failed only if the chain
\* accepted no transaction for it.
C11_FailuresAbort ==
  /\ \A w \in Workers : pc[w] = "catch" => e[w] # IOError
  /\ \A k \in DOMAIN store :
       store[k].status = status.failed => \A h \in Hashes : chain[h].req # k

\* the confirmed requests of its backlog that pass w has begun to publish
Begun(w) ==
  {requestQueue[w][j].id : j \in
     {j \in DOMAIN requestQueue[w] :
        /\ requestQueue[w][j].status = status.confirmed
        /\ j < i[w] \/ (j = i[w] /\ pc[w] \in {"submit", "writeMining"})}}

\* the requests between the start of their submission by a running pass and the
\* persisted write that ends it: the store still says confirmed
InSubmission ==
  {k \in DOMAIN store :
     /\ store[k].status = status.confirmed
     /\ \E w \in Workers : Running(w) /\ k \in Begun(w)}

\* C12: as long as no pass was started while another one was running, at most one
\* request is between the start of its submission and the persisted
\* confirmed -> mining write. (That overlapping passes can offer the same nonce
\* for the same request is the reachability of C12_Witness.)
C12_OverlapRace == ~overlapped => Cardinality(InSubmission) <= 1

\* C12 witness: two overlapping passes are publishing the same confirmed request
\* and both offer the same candidate nonce
C12_Witness ==
  /\ overlapped
  /\ pc[1] = "submit" /\ pc[2] = "submit"
  /\ request(1).id = request(2).id
  /\ conflicts[1] = 0 /\ conflicts[2] = 0
  /\ nonce[1] = nonce[2]

\* C13 (as claimed): when the receipt of a mining request has fewer confirmations
\* than required, the store is not written and the cursor becomes the recorded
\* nonce + 1 for every recorded nonce, 0 included, and the previous cursor + 1 only
\* when the request has no nonce.
C13_BelowThreshold ==
  [][\A w \in Workers :
       (/\ pc[w] = "receipt" /\ pc'[w] = "loop"
        /\ getTransactionReceipt(request(w).transactionHash) # NoReceipt)
       => /\ store' = store
          /\ nextNonce'[w] = IF request(w).nonce # Undefined
                             THEN request(w).nonce + 1
                             ELSE nextNonce[w] + 1]_vars

\* C14 (as claimed): when a pass has found its last mined request, no request
\* before it in natural order is confirmed or mining, so the backlog query leaves
\* out no unresolved request.
C14_BacklogCompleteness ==
  \A w \in Workers :
    (pc[w] = "nonce" /\ lastMinedTx[w] # 0) =>
      \A k \in DOMAIN store :
        k < lastMinedTx[w] => store[k].status \notin {status.confirmed, status.mining}

\* a step of some pass
PassStep == <<pc, locals>>' # <<pc, locals>>

\* C15: the backlog a pass queries holds only requests that are confirmed, mining
\* or mined in the store at that time (so the branch for any other status never
\* runs); the publisher is entered only for a backlog entry with status confirmed;
\* the chain accepts a transaction only for a request that is confirmed in the
\* store; and no step of a pass changes a request that is new or failed.
C15_OnlyAuthorized ==
  [][/\ \A w \in Workers :
          /\ (pc[w] = "backlog" /\ pc'[w] = "loop")
             => \A j \in DOMAIN requestQueue'[w] :
                  /\ requestQueue'[w][j].status \in
                       {status.confirmed, status.mining, status.mined}
                  /\ store[requestQueue'[w][j].id].status = requestQueue'[w][j].status
          /\ (pc[w] # "submit" /\ pc'[w] = "submit")
             => requestQueue'[w][i'[w]].status = status.confirmed
     /\ \A h \in DOMAIN chain' \ DOMAIN chain :
          store[chain'[h].req].status = status.confirmed
     /\ PassStep
        => \A k \in DOMAIN store :
             store[k].status \in {status.new, status.failed} => store'[k] = store[k]]_vars

\* C15 witness: a pass is publishing a request while an older request is still new
\* and another one is failed; its backlog holds neither of them
C15_Witness ==
  \E w \in Workers : \E k, j \in DOMAIN store :
    /\ pc[w] = "submit"
    /\ store[k].status = status.new /\ k < request(w).id
    /\ store[j].status = status.failed /\ j < request(w).id
    /\ \A n \in DOMAIN requestQueue[w] : requestQueue[w][n].id \notin {k, j}

\* C16: a backlog is in ascending natural order; a pass moves from one entry to
\* the next one only, in a step that ends the handling of the current entry (for a
\* confirmed entry: with its mining or failed status persisted), and finishes only
\* after the last entry; every store write and every submission of a pass is for
\* the entry it is currently handling.
C16_Sequential ==
  [][/\ \A w \in Workers :
          /\ (pc[w] = "backlog" /\ pc'[w] = "loop")
             => \A a, b \in DOMAIN requestQueue'[w] :
                  a < b => requestQueue'[w][a].id < requestQueue'[w][b].id
          /\ (i'[w] # i[w] /\ pc[w] \notin {"backlog", "done", "aborted"})
             => /\ i'[w] = i[w] + 1
                /\ i[w] \in DOMAIN requestQueue[w]
                /\ requestQueue'[w] = requestQueue[w]
                /\ pc[w] \in {"loop", "receipt", "writeMined", "writeMining", "catch"}
                /\ pc'[w] = "loop"
                /\ request(w).status = status.confirmed
                   => store'[request(w).id].status \in {status.mining, status.failed}
          /\ (pc[w] # "done" /\ pc'[w] = "done")
             => i[w] = Len(requestQueue[w]) + 1
     /\ \A k \in DOMAIN store :
          (PassStep /\ store'[k] # store[k])
          => \E w \in Workers :
               pc[w] \in {"writeMined", "writeMining", "catch"} /\ request(w).id = k
     /\ \A h \in DOMAIN chain' \ DOMAIN chain :
          \E w \in Workers : pc[w] = "submit" /\ request(w).id = chain'[h].req]_vars

\* C16 witness: a pass has finished a backlog of several entries, one of which it
\* published and one of which it found mining
C16_Witness ==
  \E w \in Workers :
    /\ pc[w] = "done"
    /\ Len(requestQueue[w]) >= 2
    /\ i[w] = Len(requestQueue[w]) + 1
    /\ Len(assigned[w]) >= 1
    /\ \E j \in DOMAIN requestQueue[w] : requestQueue[w][j].status = status.mining

\* C17: when a pass finds no receipt for the transaction of a mining request, the
\* step writes neither the store nor the chain, the pass goes on to the next entry
\* and its cursor is the previous cursor + 1, whatever nonce the request records.
C17_PassiveWait ==
  [][\A w \in Workers :
       (/\ pc[w] = "receipt" /\ pc'[w] = "loop"
        /\ getTransactionReceipt(request(w).transactionHash) = NoReceipt)
       => /\ store' = store
          /\ chain' = chain
          /\ nextNonce'[w] = nextNonce[w] + 1
          /\ i'[w] = i[w] + 1]_vars

\* C17 witness: a pass has gone past a mining request without a receipt, and its
\* cursor is not that request's nonce + 1
C17_Witness ==
  \E w \in Workers :
    /\ pc[w] = "loop" /\ i[w] > 1
    /\ LET r == requestQueue[w][i[w] - 1]
       IN /\ r.status = status.mining
          /\ store[r.id].status = status.mining
          /\ getTransactionReceipt(r.transactionHash) = NoReceipt
          /\ nextNonce[w] # r.nonce + 1

\* C18: a publish offers cursor, cursor + 1, ... one nonce per attempt; an attempt
\* answered with a nonce conflict is followed by the next attempt, however many
\* went before, and the retry loop is left only by an accepted submission or by an
\* error that is not a nonce conflict; and with a store and chain reads that
\* answer, and the finitely many conflicts a finite chain history can cause, every
\* pass returns.
C18_Termination ==
  /\ [][\A w \in Workers :
          pc[w] = "submit" =>
            /\ nonce[w] = nextNonce[w] + conflicts[w]
            /\ \/ /\ pc'[w] = "submit"
                  /\ \/ nonce'[w] = nonce[w] /\ conflicts'[w] = conflicts[w]
                     \/ nonce'[w] = nonce[w] + 1 /\ conflicts'[w] = conflicts[w] + 1
               \/ /\ pc'[w] = "writeMining"
                  /\ nonce'[w] = nonce[w]
                  /\ \E h \in DOMAIN chain' \ DOMAIN chain : chain'[h].nonce = nonce[w]
               \/ /\ pc'[w] = "catch"
                  /\ e'[w].code \notin {errorCode.NONCE_EXPIRED,
                                        errorCode.REPLACEMENT_UNDERPRICED}]_vars
  /\ \A w \in Workers : Running(w) ~> ~Running(w)

\* C18 witness: a retry loop is at its third attempt
C18_Witness ==
  \E w \in Workers :
    /\ pc[w] = "submit"
    /\ conflicts[w] >= 2
    /\ nonce[w] = nextNonce[w] + 2

\* the wallet's next unused nonce: one more than the highest nonce broadcast so
\* far, or the chain count of the unused wallet
NextUnused ==
  IF chain = <<>> THEN 0
  ELSE 1 + CHOOSE n \in {chain[h].nonce : h \in Hashes} :
             \A h \in Hashes : chain[h].nonce <= n

\* C19 (as claimed): with non-overlapping passes and no other sender, the nonce a
\* pass first offers for a confirmed request is the wallet's next unused nonce,
\* and the nonces broadcast so far have no gap.
C19_NoSkippedNonce ==
  /\ \A w \in Workers :
       (pc[w] = "submit" /\ conflicts[w] = 0) => nonce[w] = NextUnused
  /\ \A h \in Hashes : \A n \in 0..chain[h].nonce : \E g \in Hashes : chain[g].nonce = n

\* C20: in every state a request has a reason exactly when it is failed; a mining
\* or mined request has a transaction hash and a nonce; a mined request has a
\* receipt, and only a mined request has one; a new or confirmed request has none
\* of these fields.
C20_WellFormed ==
  \A k \in DOMAIN store :
    LET r == store[k]
    IN /\ r.reason # NoReason <=> r.status = status.failed
       /\ r.status \in {status.mining, status.mined}
          => r.transactionHash # Undefined /\ r.nonce >= 0
       /\ r.txReceipt # NoReceipt <=> r.status = status.mined
       /\ r.status = status.mined => r.txReceipt.transactionHash = r.transactionHash
       /\ r.status \in {status.new, status.confirmed}
          => r.transactionHash = Undefined /\ r.nonce = Undefined

\* C20 witness: the store holds a mined, a mining and a failed request
C20_Witness ==
  \E k, j, m \in DOMAIN store :
    /\ store[k].status = status.mined /\ store[k].txReceipt # NoReceipt
    /\ store[j].status = status.mining /\ store[j].nonce >= 0
    /\ store[m].status = status.failed /\ store[m].reason # NoReason

====
